---- MODULE Spec2Model ----
(***************************************************************************)
(* The IRLS fitting engine of scikits/statsmodels/glm.py: GLM.initialize,  *)
(* GLM.fit, GLM._update_history, GLM.estimate_scale, GLM.predict and       *)
(* GLMResults.__init__, as a state machine over one GLM instance.          *)
(*                                                                         *)
(* The numerical collaborators that are not part of glm.py (the family's   *)
(* starting_mu / deviance / fitted, the WLS solver) are deterministic      *)
(* functions of their arguments.  A mean estimate is identified by the     *)
(* number of WLS solves that produced it and by the weights handed to the  *)
(* solver; family.deviance is an oracle that is drawn from a small set the *)
(* first time it is asked about a mean estimate and remembered afterwards. *)
(*                                                                         *)
(* Spec is the model under calls of fit and predict.  SpecResults is the   *)
(* model under calls of fit and reads of the cached diagnostics of the     *)
(* GLMResults objects that fit returned.                                   *)
(***************************************************************************)
EXTENDS Integers, Sequences, FiniteSets, TLC

\* ---------------------------------------------------------------- bounds
MaxFits == 2        \* fit calls made on the model in one behaviour
MaxMaxiter == 4     \* largest maxiter argument handed to fit
MaxDev == 2         \* deviances are df_resid * (1..MaxDev), or NaN
NObs == 3           \* number of observations (rows of endog and exog)

\* ---------------------------------------------------------------- values
Families == {"Gaussian", "Binomial", "Poisson", "Gamma"}

\* Python values of the scale argument: None, floats, strings, ints.
PyNone == [t |-> "NoneType", n |-> 0, s |-> ""]
PyFloat(x) == [t |-> "float", n |-> x, s |-> ""]
PyInt(x) == [t |-> "int", n |-> x, s |-> ""]
PyStr(x) == [t |-> "str", n |-> 0, s |-> x]
\* an attribute that has not been assigned yet
NoAttr == [t |-> "unset", n |-> 0, s |-> ""]

\* data_weights: a scalar (np.shape(...) == ()) or a length-NObs vector
Scalar(c) == [scalar |-> TRUE, val |-> <<c>>]
Vector(v) == [scalar |-> FALSE, val |-> v]
NoDW == [scalar |-> TRUE, val |-> <<>>]

\* a mean estimate: k WLS solves after starting_mu, solved with weights w,
\* computed from an endog of y dimensions
NoMu == [k |-> -1, w |-> NoDW, y |-> 0]
\* coefficients: the result of the p-th WLS solve of a call, with weights w
NoParams == [p |-> 0, w |-> NoDW]
ParamsInf == [p |-> -1, w |-> NoDW]
UserParams == [p |-> -2, w |-> NoDW]

\* floats: finite numbers, nan, inf, and the Pearson statistic of a mean
\* estimate divided by df_resid, which is kept symbolic
Num(x) == [k |-> "num", v |-> x, at |-> NoMu]
NaN == [k |-> "nan", v |-> 0, at |-> NoMu]
Inf == [k |-> "inf", v |-> 0, at |-> NoMu]
Pearson(mu) == [k |-> "pearson", v |-> 0, at |-> mu]
NoFloat == [k |-> "unset", v |-> 0, at |-> NoMu]

\* np.fabs(a - b) on floats
Fabs(x) == IF x < 0 THEN -x ELSE x
FabsDiff(a, b) ==
    IF a.k = "nan" \/ b.k = "nan" THEN NaN
    ELSE IF a.k = "inf" /\ b.k = "inf" THEN NaN
    ELSE IF a.k = "inf" \/ b.k = "inf" THEN Inf
    ELSE Num(Fabs(a.v - b.v))
\* x >= tol in place of x > tol
Greater_orEqual(x, tol) == x.k = "inf" \/ (x.k = "num" /\ x.v >= tol)
\* x > tol for a finite tol: False for nan
Greater(x, tol) == x.k = "inf" \/ (x.k = "num" /\ x.v > tol)

\* list[i] with a Python index 0 <= i < len
PyIndex(list, i) == list[i + 1]

\* ---------------------------------------------------------------- design
\* exog is an NObs x 1 column of ones: rank 1
Exog == [i \in 1..NObs |-> <<1>>]
Rank(x) == Len(x[1])
\* endog: one row per observation; with ndim = 1 a row <<a, b>> is the
\* number a/b, with ndim = 2 it is (successes a, failures b)
Endog1d == [ndim |-> 1, rows |-> [i \in 1..NObs |-> <<i, 1>>]]
Endog2d == [ndim |-> 2, rows |-> [i \in 1..NObs |-> <<i, 1>>]]
EndogsOf(fam) == IF fam = "Binomial" THEN {Endog1d, Endog2d} ELSE {Endog1d}


\* ---------------------------------------------------------------- family
\* Binomial.initialize: an n x 2 (successes, failures) endog collapses to
\* the vector of proportions successes / trials; a 1-d endog is kept
FamilyInitialize(y) ==
    IF y.ndim > 1
    THEN [ndim |-> 1,
          rows |-> [i \in DOMAIN y.rows |->
                       <<y.rows[i][1], y.rows[i][1] + y.rows[i][2]>>]]
    ELSE y
\* family.starting_mu(endog): the same first guess for the same endog
StartingMu(fam, y) == [k |-> 0, w |-> NoDW, y |-> y.ndim]
\* family.predict(mu): the linear predictor of a mean estimate
FamilyPredict(mu) == [link_of |-> mu]
\* a WLS solution does not change when all weights are multiplied by the
\* same number: a scalar data_weights solves as data_weights = 1
WlsWeights(dw) == IF dw.scalar THEN Scalar(1) ELSE dw
\* the mean estimate after one more WLS solve with weights dw.  With the
\* Gaussian family and identity link the working response is endog and the
\* weights are constant, so every solve gives the same estimate.
SolvedMu(fam, m, dw, y) ==
    [k |-> IF fam = "Gaussian" THEN 1 ELSE m.k + 1, w |-> WlsWeights(dw),
     y |-> y.ndim]
\* family.weights(mu): constant for the Gaussian family with identity link,
\* a function of the mean estimate otherwise
FamilyWeights(fam, m) == IF fam = "Gaussian" THEN NoMu ELSE m
\* the coefficients of the WLS solve that produced mean estimate m
ParamsOf(m) == [p |-> m.k, w |-> m.w]

VARIABLES
    family, endog, exog,          \* set by GLM.__init__
    history, iteration,           \* set by GLM.initialize
    df_resid, df_model,
    data_weights, scaletype,      \* attributes written by fit
    weights, scale, self_mu,
    _results,                     \* back-reference: index into results, or NoResults
    results,                      \* the GLMResults objects created so far
    cache,                        \* the _cache of each GLMResults object
    pc, call, ret,                \* control point, arguments and outcome of the last call
    mu, eta, wls_results,         \* locals of the running fit call
    devOracle,                    \* family.deviance(endog, mu), as far as asked
    nfit, ncompleted, nsolve, ninit, \* counters of calls, returns, solves, reshapings
    prev                          \* what the last fit call found when it started

model_vars == <<family, endog, exog, history, iteration, df_resid, df_model,
                data_weights, scaletype, weights, scale, self_mu, _results,
                results, cache>>
local_vars == <<mu, eta, wls_results>>
count_vars == <<nfit, ncompleted, nsolve, ninit>>
vars == <<model_vars, pc, call, ret, local_vars, devOracle, count_vars, prev>>

\* the deviances family.deviance may return for mean estimate m
DevNums(df) == {Num(df * i) : i \in 1..MaxDev}
DevChoices(fam, m, df) ==
    IF m \in DOMAIN devOracle THEN {devOracle[m]}
    ELSE IF fam = "Gaussian" THEN DevNums(df)
    ELSE DevNums(df) \cup {NaN}
Asked(m, d) == IF m \in DOMAIN devOracle THEN devOracle ELSE devOracle @@ (m :> d)

\* ---------------------------------------------------------------- calls
\* the value of model._results before any GLMResults is built (None)
NoResults == 0
NoCall == [op |-> "none", maxiter |-> 0, method |-> "", tol |-> 0,
           data_weights |-> NoDW, scale |-> NoAttr,
           params_given |-> FALSE, linear |-> FALSE, obj |-> 0, attr |-> ""]
NoRet == [status |-> "none", result |-> 0, params |-> NoParams, linear |-> FALSE,
          value |-> NoFloat]
Unbound == [bound |-> FALSE, params |-> NoParams]

\* a fit call with arguments a starts: was the call just before it a fit
\* call with the same arguments, how did that call end, how many solves did
\* it make
Previous(a) == [same |-> a = call, status |-> ret.status, nsolve |-> nsolve]
NoPrevious == [same |-> FALSE, status |-> "none", nsolve |-> 0]

Methods == {"IRLS", "newton"}
Tols == {-1, 0}
DataWeightArgs == {Scalar(1), Scalar(2), Vector([i \in 1..NObs |-> i])}
ScaleArgs == {PyNone, PyFloat(0), PyFloat(2), PyStr("X2"), PyStr("dev"),
              PyStr("bogus"), PyStr(""), PyInt(3)}
FitCalls(maxiters, methods, tols, dws, scales) ==
    [op : {"fit"}, maxiter : maxiters, method : methods, tol : tols,
     data_weights : dws, scale : scales, params_given : {FALSE}, linear : {FALSE},
     obj : {0}, attr : {""}]
\* the calls of fit that are tried: every maxiter, tol and scale with the
\* default method and data_weights, and every method and data_weights with
\* the largest maxiter
FitArgs ==
    FitCalls(1..MaxMaxiter, {"IRLS"}, Tols, {Scalar(1)}, ScaleArgs)
    \cup FitCalls({MaxMaxiter}, Methods, {0}, DataWeightArgs, {PyNone, PyStr("dev")})

\* ---------------------------------------------------------------- GLM.__init__, GLM.initialize
Init ==
    /\ family \in Families
    /\ endog \in EndogsOf(family)
    /\ exog = Exog
    /\ history = [fittedvalues |-> <<>>, params |-> <<ParamsInf>>,
                  deviance |-> <<Inf>>]
    /\ iteration = 0
    /\ df_model = Rank(Exog) - 1
    /\ df_resid = Len(Exog) - Rank(Exog)
    /\ data_weights = NoDW
    /\ scaletype = NoAttr
    /\ weights = [w |-> NoDW, at |-> NoMu]
    /\ scale = NoFloat
    /\ self_mu = NoMu
    /\ _results = NoResults
    /\ results = <<>>
    /\ cache = <<>>
    /\ pc = "idle"
    /\ call = NoCall
    /\ ret = NoRet
    /\ mu = NoMu
    /\ eta = FamilyPredict(NoMu)
    /\ wls_results = Unbound
    /\ devOracle = <<>>
    /\ nfit = 0 /\ ncompleted = 0 /\ nsolve = 0 /\ ninit = 0
    /\ prev = NoPrevious


\* ---------------------------------------------------------------- GLM.estimate_scale
\* bool(v) of a Python value
Truthy(v) ==
    CASE v.t = "NoneType" -> FALSE
      [] v.t = "str" -> v.s # ""
      [] OTHER -> v.n # 0
\* str.lower on the strings handed to fit
Lower(str) == IF str = "X2" THEN "x2" ELSE str
Raised == [raised |-> TRUE, value |-> NoFloat]
Returned(x) == [raised |-> FALSE, value |-> x]
\* dev / df_resid
Over(dev, df) == IF dev.k = "num" THEN Num(dev.v \div df) ELSE dev
\* estimate_scale with the fixed-dispersion test naming Binomial only
EstimateScale_BinomialOnly(st, fam, m, dev, df) ==
    IF ~Truthy(st)
    THEN IF fam \in {"Binomial"} THEN Returned(Num(1))
         ELSE Returned(Pearson(m))
    ELSE IF st.t = "float" THEN Returned(Num(st.n))
    ELSE IF st.t = "str"
         THEN IF Lower(st.s) = "x2" THEN Returned(Pearson(m))
              ELSE IF Lower(st.s) = "dev" THEN Returned(Over(dev, df))
              ELSE Raised
    ELSE Raised
\* estimate_scale(mu), where dev is family.deviance(self.endog, mu)
EstimateScale(st, fam, m, dev, df) ==
    IF ~Truthy(st)
    THEN IF fam \in {"Binomial", "Poisson"} THEN Returned(Num(1))
         ELSE Returned(Pearson(m))
    ELSE IF st.t = "float" THEN Returned(Num(st.n))
    ELSE IF st.t = "str"
         THEN IF Lower(st.s) = "x2" THEN Returned(Pearson(m))
              ELSE IF Lower(st.s) = "dev" THEN Returned(Over(dev, df))
              ELSE Raised
    ELSE Raised

\* ---------------------------------------------------------------- GLM.fit
\* the data_weights check letting the Poisson family pass as well
WeightsRejected_Poisson(fam, dw) == ~dw.scalar /\ fam \notin {"Binomial", "Poisson"}
\* the data_weights check that opens fit
WeightsRejected(fam, dw) == ~dw.scalar /\ fam # "Binomial"
\* a scalar data_weights > 1 becomes a vector of that value
BroadcastWeights(dw, n) ==
    IF dw.scalar /\ dw.val[1] > 1 THEN Vector([i \in 1..n |-> dw.val[1]]) ELSE dw
\* family.initialize called without assigning its result to self.endog
FitEndog_kept(fam, y) ==
    IF fam = "Binomial" THEN [endog |-> y, applied |-> 1]
    ELSE [endog |-> y, applied |-> 0]
\* self.endog = self.family.initialize(self.endog) for a Binomial family
FitEndog(fam, y) ==
    IF fam = "Binomial" THEN [endog |-> FamilyInitialize(y), applied |-> 1]
    ELSE [endog |-> y, applied |-> 0]
\* starting_mu computed before the family's initialize
FitStartingMu_before(fam, yold, ynew) == StartingMu(fam, yold)
\* the mean estimate fit starts from: starting_mu of the endog that
\* initialize returned
FitStartingMu(fam, yold, ynew) == StartingMu(fam, ynew)
\* the condition of the while loop
LoopGuard(dev, it, tol, maxiter) ==
    /\ Greater(FabsDiff(PyIndex(dev, it), PyIndex(dev, it - 1)), tol)
    /\ it < maxiter
\* estimate_scale handed the mean estimate of the pass before
ScaleMu_previous(old, new) == old
\* the mean estimate handed to estimate_scale: the one just fitted
ScaleMu(old, new) == new
\* the iteration counter after the statement that follows family.predict
FitIteration(it) == it + 1

\* the exceptions raised
DataWeightsError == "ValueError: data weights"
NaNError == "ValueError: first deviance nan"
ScaleError == "ValueError: scale not understood"
UnboundError == "UnboundLocalError: wls_results"
ParamsRequired == "ValueError: params required"

Raise(a, msg) == /\ call' = a
                 /\ ret' = [NoRet EXCEPT !.status = msg]

\* fit raises on non-scalar data_weights with a non-Binomial family
FitDataWeightsError(a) ==
    /\ pc = "idle" /\ nfit < MaxFits
    /\ WeightsRejected(family, a.data_weights)
    /\ Raise(a, DataWeightsError)
    /\ nfit' = nfit + 1
    /\ nsolve' = 0
    /\ prev' = Previous(a)
    /\ UNCHANGED <<model_vars, pc, local_vars, devOracle, ncompleted, ninit>>

\* fit from its first statement to the computation of the first deviance d
\* of the starting mean estimate m
FitPrologue(a, m, d) ==
    /\ pc = "idle" /\ nfit < MaxFits
    /\ ~WeightsRejected(family, a.data_weights)
    /\ data_weights' = BroadcastWeights(a.data_weights, Len(exog))
    /\ scaletype' = a.scale
    /\ endog' = FitEndog(family, endog).endog
    /\ ninit' = ninit + FitEndog(family, endog).applied
    /\ m = FitStartingMu(family, endog, endog')
    /\ iteration' = FitIteration(iteration)
    /\ d \in DevChoices(family, m, df_resid)
    /\ devOracle' = Asked(m, d)
    /\ nfit' = nfit + 1
    /\ nsolve' = 0
    /\ prev' = Previous(a)
    /\ UNCHANGED <<family, exog, df_resid, df_model, weights, scale, self_mu,
                   _results, results, cache, ncompleted>>

\* np.isinf in place of np.isnan
FirstDevianceRejected_inf(d) == d.k = "inf"
\* np.isnan(dev) of the first deviance
FirstDevianceRejected(d) == d.k = "nan"

\* the first deviance is nan: fit raises
FitNaNDeviance(a) ==
    \E d \in DevNums(df_resid) \cup {NaN} :
        /\ FitPrologue(a, FitStartingMu(family, endog, endog'), d)
        /\ FirstDevianceRejected(d)
        /\ Raise(a, NaNError)
        /\ UNCHANGED <<history, pc, local_vars>>

\* the first deviance is recorded and the loop is reached
FitEnterLoop(a) ==
    \E d \in DevNums(df_resid) \cup {NaN} :
        /\ FitPrologue(a, FitStartingMu(family, endog, endog'), d)
        /\ ~FirstDevianceRejected(d)
        /\ history' = [history EXCEPT !.deviance = Append(@, d)]
        /\ mu' = FitStartingMu(family, endog, endog')
        /\ eta' = FamilyPredict(mu')
        /\ wls_results' = Unbound
        /\ call' = a
        /\ ret' = NoRet
        /\ pc' = "loop"

\* one pass through the loop body, up to self._update_history: the new
\* mean estimate m and its deviance d
LoopSolve(m, d) ==
    /\ pc = "loop"
    /\ LoopGuard(history.deviance, iteration, call.tol, call.maxiter)
    /\ m = SolvedMu(family, mu, call.data_weights, endog)
    /\ d \in DevChoices(family, m, df_resid)
    /\ devOracle' = Asked(m, d)
    /\ weights' = [w |-> call.data_weights, at |-> FamilyWeights(family, mu)]
    /\ history' = [fittedvalues |-> Append(history.fittedvalues, ParamsOf(m)),
                   params |-> Append(history.params, ParamsOf(m)),
                   deviance |-> Append(history.deviance, d)]
    /\ nsolve' = nsolve + 1
    /\ UNCHANGED <<family, endog, exog, df_resid, df_model, data_weights,
                   scaletype, self_mu, _results, results, cache, call, nfit,
                   ncompleted, ninit, prev>>

\* the loop body runs to its end
LoopBody ==
    \E d \in DevNums(df_resid) \cup {NaN} :
        LET m == SolvedMu(family, mu, call.data_weights, endog)
            sm == ScaleMu(mu, m)
            est == EstimateScale(scaletype, family, sm, Asked(m, d)[sm], df_resid)
        IN  /\ LoopSolve(m, d)
            /\ ~est.raised
            /\ scale' = est.value
            /\ iteration' = iteration + 1
            /\ mu' = m
            /\ eta' = FamilyPredict(m)
            /\ wls_results' = [bound |-> TRUE, params |-> ParamsOf(m)]
            /\ UNCHANGED <<pc, ret>>

\* estimate_scale raises in the loop body
LoopScaleError ==
    \E d \in DevNums(df_resid) \cup {NaN} :
        LET m == SolvedMu(family, mu, call.data_weights, endog)
            sm == ScaleMu(mu, m)
            est == EstimateScale(scaletype, family, sm, Asked(m, d)[sm], df_resid)
        IN  /\ LoopSolve(m, d)
            /\ est.raised
            /\ ret' = [NoRet EXCEPT !.status = ScaleError]
            /\ pc' = "idle"
            /\ mu' = NoMu
            /\ eta' = FamilyPredict(NoMu)
            /\ wls_results' = Unbound
            /\ UNCHANGED <<scale, iteration>>

\* GLMResults.__init__
NewResults(fam, m, wls, sc, y, dw, dfr, dfm) ==
    [params |-> wls.params, normalized_cov_params |-> wls.params, scale |-> sc,
     family |-> fam, endog |-> y, nobs |-> Len(y.rows), mu |-> m,
     data_weights |-> dw, df_resid |-> dfr, df_model |-> dfm]

\* the GLMResults built before self.mu = mu
ResultsMu_before(attr, local) == attr
\* model.mu as GLMResults.__init__ reads it: fit has assigned its local mu
ResultsMu(attr, local) == local

\* the loop has ended
LoopExit ==
    /\ pc = "loop"
    /\ ~LoopGuard(history.deviance, iteration, call.tol, call.maxiter)
    /\ self_mu' = mu
    /\ pc' = "idle"
    /\ mu' = NoMu
    /\ eta' = FamilyPredict(NoMu)
    /\ wls_results' = Unbound
    /\ UNCHANGED <<family, endog, exog, history, iteration, df_resid, df_model,
                   data_weights, scaletype, weights, scale, call, devOracle,
                   nfit, nsolve, ninit, prev>>

\* the loop ended after at least one pass: a GLMResults is built and returned
FitReturn ==
    /\ LoopExit
    /\ wls_results.bound
    /\ results' = Append(results,
                         NewResults(family, ResultsMu(self_mu, mu), wls_results,
                                    scale, endog, data_weights, df_resid,
                                    df_model))
    /\ cache' = Append(cache, <<>>)
    /\ _results' = Len(results')
    /\ ret' = [NoRet EXCEPT !.status = "returned", !.result = Len(results')]
    /\ ncompleted' = ncompleted + 1

\* the loop ended without a pass: wls_results is not bound
FitUnboundLocal ==
    /\ LoopExit
    /\ ~wls_results.bound
    /\ ret' = [NoRet EXCEPT !.status = UnboundError]
    /\ UNCHANGED <<_results, results, cache, ncompleted>>

\* ---------------------------------------------------------------- GLM.predict
PredictArgs == [op : {"predict"}, maxiter : {0}, method : {""}, tol : {0},
                data_weights : {NoDW}, scale : {NoAttr},
                params_given : BOOLEAN, linear : BOOLEAN, obj : {0}, attr : {""}]
\* predict raises: not fit and no params
PredictRejected(ref, given) == ref = NoResults /\ ~given
\* predict preferring the params of the caller
PredictParams_caller(ref, res, given) ==
    IF given \/ ref = NoResults THEN UserParams ELSE res[ref].params
\* the params predict computes from
PredictParams(ref, res, given) ==
    IF ref # NoResults THEN res[ref].params ELSE UserParams

PredictError(a) ==
    /\ pc = "idle"
    /\ PredictRejected(_results, a.params_given)
    /\ Raise(a, ParamsRequired)
    /\ UNCHANGED <<model_vars, pc, local_vars, devOracle, count_vars, prev>>

Predict(a) ==
    /\ pc = "idle"
    /\ ~PredictRejected(_results, a.params_given)
    /\ call' = a
    /\ ret' = [NoRet EXCEPT !.status = "returned",
                            !.params = PredictParams(_results, results, a.params_given),
                            !.linear = a.linear]
    /\ UNCHANGED <<model_vars, pc, local_vars, devOracle, count_vars, prev>>

\* ---------------------------------------------------------------- GLMResults diagnostics
\* the cached attributes that are read
Diagnostics == {"deviance", "bic"}
\* the deviance computed from the mean estimate the model holds now
ResultsDeviance_model(R) == devOracle[self_mu]
\* GLMResults.deviance: family.deviance(self._endog, self.mu)
ResultsDeviance(R) == devOracle[R.mu]
\* self.deviance - self.df_resid * np.log(self.nobs), kept symbolic
Bic(dev, df, n) == [dev |-> dev, df_resid |-> df, nobs |-> n]
\* cache_readonly: the stored value if there is one, else the value the
\* method computes, which is stored
CachedDeviance(c, R) ==
    IF "deviance" \in DOMAIN c THEN [cache |-> c, value |-> c["deviance"]]
    ELSE LET v == ResultsDeviance(R)
         IN  [cache |-> c @@ ("deviance" :> v), value |-> v]
\* GLMResults.bic reads self.deviance, itself a cached attribute
CachedBic(c, R) ==
    IF "bic" \in DOMAIN c THEN [cache |-> c, value |-> c["bic"]]
    ELSE LET d == CachedDeviance(c, R)
             v == Bic(d.value, R.df_resid, R.nobs)
         IN  [cache |-> d.cache @@ ("bic" :> v), value |-> v]
ReadAttr(c, R, name) ==
    IF name = "deviance" THEN CachedDeviance(c, R) ELSE CachedBic(c, R)

\* results.deviance or results.bic is read on the r-th GLMResults object
ResultsAccess(r, name) ==
    /\ pc = "idle"
    /\ LET got == ReadAttr(cache[r], results[r], name)
       IN  /\ cache' = [cache EXCEPT ![r] = got.cache]
           /\ call' = [NoCall EXCEPT !.op = "access", !.obj = r, !.attr = name]
           /\ ret' = [NoRet EXCEPT !.status = "returned", !.result = r,
                                   !.value = got.value]
    /\ UNCHANGED <<family, endog, exog, history, iteration, df_resid, df_model,
                   data_weights, scaletype, weights, scale, self_mu, _results,
                   results, pc, local_vars, devOracle, count_vars, prev>>

\* ---------------------------------------------------------------- specification
Next ==
    \/ \E a \in FitArgs : FitDataWeightsError(a)
    \/ \E a \in FitArgs : FitNaNDeviance(a)
    \/ \E a \in FitArgs : FitEnterLoop(a)
    \/ LoopBody
    \/ LoopScaleError
    \/ FitReturn
    \/ FitUnboundLocal
    \/ \E a \in PredictArgs : PredictError(a)
    \/ \E a \in PredictArgs : Predict(a)

Spec == Init /\ [][Next]_vars

\* the fit calls made where the diagnostics are read: every maxiter and tol,
\* the scale unset, "dev" or not understood, scalar or vector data_weights
ResultsFitArgs ==
    FitCalls(1..MaxMaxiter, {"IRLS"}, Tols, {Scalar(1)},
             {PyNone, PyStr("dev"), PyStr("bogus")})
    \cup FitCalls({MaxMaxiter}, {"IRLS"}, {0}, {Vector([i \in 1..NObs |-> i])},
                  {PyNone})

\* fit calls on the model, and reads of the diagnostics of the Results they
\* returned
NextResults ==
    \/ \E a \in ResultsFitArgs : FitDataWeightsError(a)
    \/ \E a \in ResultsFitArgs : FitNaNDeviance(a)
    \/ \E a \in ResultsFitArgs : FitEnterLoop(a)
    \/ LoopBody
    \/ LoopScaleError
    \/ FitReturn
    \/ FitUnboundLocal
    \/ \E r \in 1..Len(results), name \in Diagnostics : ResultsAccess(r, name)

SpecResults == Init /\ [][NextResults]_vars

\* ---------------------------------------------------------------- claims
FitEnded == pc = "idle" /\ call.op = "fit"
\* a step that is the start of a fit call
FitStarts == pc = "idle" /\ call'.op = "fit" /\ nfit' = nfit + 1
\* the Results of the most recently completed fit
LastResults == results[Len(results)]

\* C1: a fit call whose method is not "IRLS" returns no Results.
C1_UnsupportedMethodFails ==
    (FitEnded /\ call.method # "IRLS") => ret.status # "returned"

\* C2: on a fresh model, fit with maxiter = 1 and an unreachable tol (and a
\* starting deviance that is not nan) performs exactly one WLS solve and
\* returns a Results.
C2_MaxiterOneReturns ==
    (FitEnded /\ nfit = 1 /\ call.maxiter = 1 /\ call.tol < 0
        /\ call.scale = PyNone /\ ret.status # NaNError)
    => (ret.status = "returned" /\ nsolve = 1)

\* C3 as stated: with a Poisson or Binomial family every scale that fit has
\* estimated and every scale stored in a Results is 1, whatever the scale
\* argument.
C3_FixedScaleAlwaysOne ==
    family \in {"Poisson", "Binomial"} =>
        /\ scale # NoFloat => scale = Num(1)
        /\ \A i \in 1..Len(results) : results[i].scale = Num(1)

\* C3 amended: with a Poisson or Binomial family and the scale argument
\* unset (None), the scale estimated at every iteration of the call and the
\* scale of the Results it returns are 1.
C3_DefaultScaleIsOne ==
    (family \in {"Poisson", "Binomial"} /\ call.op = "fit" /\ call.scale = PyNone)
    => /\ (pc = "loop" /\ nsolve >= 1) => scale = Num(1)
       /\ (pc = "idle" /\ ret.status = "returned") =>
              results[ret.result].scale = Num(1)
C3_Witness ==
    /\ family = "Poisson" /\ FitEnded /\ call.scale = PyNone
    /\ ret.status = "returned" /\ nsolve >= 2
    /\ results[ret.result].scale = Num(1)

\* C4: during and after a fit call that raised neither the data-weights nor
\* the nan-deviance error, the iteration counter is at most the maxiter of
\* that call.
C4_IterationAtMostMaxiter ==
    (call.op = "fit" /\ ret.status \notin {DataWeightsError, NaNError})
    => iteration <= call.maxiter

\* C5: a fit call whose scale argument is none of None, a float, "X2",
\* "dev" returns no Results.
Unrecognized(v) ==
    /\ v.t \notin {"NoneType", "float"}
    /\ ~(v.t = "str" /\ v.s \in {"X2", "dev"})
C5_UnrecognizedScaleFails ==
    (FitEnded /\ Unrecognized(call.scale)) => ret.status # "returned"

\* C6: a fit call with non-scalar data_weights on a non-Binomial family
\* raises the data-weights error and leaves data_weights, scaletype, endog,
\* iteration and history as they were; on a Binomial family the call does
\* not raise that error.
C6_DataWeightsCheckedFirst ==
    [][(FitStarts /\ ~call'.data_weights.scalar) =>
          IF family # "Binomial"
          THEN /\ ret'.status = DataWeightsError
               /\ pc' = "idle"
               /\ UNCHANGED <<data_weights, scaletype, endog, iteration, history>>
          ELSE ret'.status # DataWeightsError]_vars
C6_Witness ==
    /\ FitEnded /\ family = "Gamma" /\ ~call.data_weights.scalar
    /\ ret.status = DataWeightsError
    /\ nfit = 2 /\ iteration >= 2 /\ data_weights.scalar

\* C7: when the deviance of the starting mean estimate is nan, fit raises
\* the numerical-boundary error without entering the loop: no WLS solve, no
\* history entry, no Results, the back-reference unchanged.
C7_NaNFailsBeforeLoop ==
    [][(FitStarts /\ ret'.status # DataWeightsError
           /\ devOracle'[StartingMu(family, endog')].k = "nan")
       => /\ ret'.status = NaNError
          /\ pc' = "idle"
          /\ nsolve' = 0
          /\ UNCHANGED <<history, results, _results>>]_vars
C7_Witness ==
    /\ FitEnded /\ ret.status = NaNError
    /\ devOracle[StartingMu(family, endog)] = NaN
    /\ Len(history.deviance) = 1

\* C8: predict without params raises exactly when no fit has completed;
\* once a fit has completed, predict computes from the params of the most
\* recently completed fit, whether or not the caller passes params.
C8_PredictUsesFitParams ==
    (pc = "idle" /\ call.op = "predict") =>
        /\ ~call.params_given =>
               (ret.status = ParamsRequired <=> ncompleted = 0)
        /\ ncompleted > 0 =>
               (ret.status = "returned" /\ ret.params = LastResults.params)
C8_Witness ==
    /\ pc = "idle" /\ call.op = "predict" /\ call.params_given
    /\ ncompleted = 2 /\ ret.status = "returned"
    /\ ret.params = LastResults.params
    /\ ret.params # UserParams /\ ret.params # results[1].params

\* C9 as stated: for a Binomial model the family's initialize is applied to
\* endog at most once over the lifetime of the model.
C9_InitializeOnce == family = "Binomial" => ninit <= 1

\* C9 amended: for a Binomial model every fit call applies the family's
\* initialize to endog, each time before that call's starting_mu: every
\* mean estimate is computed from the collapsed 1-d endog, and after the
\* first call endog is 1-d.
C9_InitializeEveryFit ==
    family = "Binomial" =>
        /\ ninit = nfit
        /\ nfit >= 1 => endog.ndim = 1
        /\ \A m \in DOMAIN devOracle : m.y = 1
C9_Witness ==
    /\ family = "Binomial" /\ ninit = 2 /\ pc = "loop"
    /\ endog = FamilyInitialize(Endog2d) /\ mu.y = 1

\* C10 as stated: no step changes endog or exog.
C10_EndogExogUnchanged == [][endog' = endog /\ exog' = exog]_vars

\* C10 amended: fit never changes exog; a fit call that passes the
\* data_weights check writes data_weights and scaletype, and for a Binomial
\* family replaces endog by the family's reshaping of it; no other step
\* changes endog.
C10_EndogOnlyReshaped ==
    [][/\ exog' = exog
       /\ IF FitStarts /\ ret'.status # DataWeightsError
          THEN /\ endog' = IF family = "Binomial" THEN FamilyInitialize(endog)
                           ELSE endog
               /\ scaletype' = call'.scale
               /\ data_weights' = BroadcastWeights(call'.data_weights, Len(exog))
          ELSE endog' = endog]_vars
C10_Witness ==
    /\ family = "Binomial" /\ nfit >= 1
    /\ endog = FamilyInitialize(Endog2d) /\ endog # Endog2d
    /\ exog = Exog

\* C11: when a fit call with scale = "dev" returns, the scale of its Results
\* is the deviance of that Results (the family's deviance of the Results'
\* endog and mu) divided by its df_resid.
C11_DevScaleIsDeviance ==
    (FitEnded /\ call.scale = PyStr("dev") /\ ret.status = "returned") =>
        LET R == results[ret.result]
        IN  /\ R.mu \in DOMAIN devOracle
            /\ R.scale = Over(ResultsDeviance(R), R.df_resid)
C11_Witness ==
    /\ FitEnded /\ call.scale = PyStr("dev") /\ ret.status = "returned"
    /\ nsolve >= 2 /\ family = "Gamma"
    /\ results[ret.result].scale = Num(1)
    /\ history.deviance[Len(history.deviance) - 1] = Num(2 * df_resid)

\* C12: with a float scale argument c, the scale estimated at every pass of
\* the call and the scale of the Results it returns are c, zero included.
C12_FloatScaleIsConstant ==
    (call.op = "fit" /\ call.scale.t = "float") =>
        /\ (pc = "loop" /\ nsolve >= 1) => scale = Num(call.scale.n)
        /\ (pc = "idle" /\ ret.status = "returned") =>
               results[ret.result].scale = Num(call.scale.n)

\* C13: a GLMResults object never changes after it is built; a cached
\* diagnostic, once stored, keeps its value; every read of a diagnostic
\* returns the stored value, which is the value computed from the fields of
\* that GLMResults object, whatever fit calls were made on the model after
\* the object was built.
C13_DiagnosticsComputedOnce ==
    [][/\ \A r \in 1..Len(results) :
              /\ results'[r] = results[r]
              /\ \A n \in DOMAIN cache[r] :
                     n \in DOMAIN cache'[r] /\ cache'[r][n] = cache[r][n]
       /\ call'.op = "access" =>
              LET R == results[call'.obj]
                  dev == devOracle[R.mu]
              IN  /\ ret'.value = cache'[call'.obj][call'.attr]
                  /\ ret'.value = IF call'.attr = "deviance" THEN dev
                                  ELSE [dev |-> dev, df_resid |-> R.df_resid,
                                        nobs |-> R.nobs]]_vars
C13_Witness ==
    /\ pc = "idle" /\ call.op = "access" /\ call.obj = 1 /\ call.attr = "deviance"
    /\ Len(results) = 2 /\ "bic" \in DOMAIN cache[1]
    /\ ret.value = devOracle[results[1].mu]
    /\ devOracle[results[2].mu] # devOracle[results[1].mu]
    /\ self_mu = results[2].mu

\* the first fit call on a Gaussian model, with unit data_weights and tol >= 0
GaussianFirstFit ==
    /\ family = "Gaussian" /\ call.op = "fit" /\ nfit = 1
    /\ call.data_weights = Scalar(1) /\ call.tol >= 0
\* the coefficients and weights of every pass made so far are the same
SameSolves ==
    /\ \A i, j \in 2..Len(history.params) : history.params[i] = history.params[j]
    /\ nsolve >= 1 => weights = [w |-> Scalar(1), at |-> NoMu]

Last(list) == list[Len(list)]
Penultimate(list) == list[Len(list) - 1]

\* C15: when the loop guard is evaluated, the loop body runs again exactly
\* when the absolute difference of the two most recent deviances exceeds
\* tol and iteration < maxiter; otherwise the loop ends.
C15_GuardOnLastTwoDeviances ==
    [][pc = "loop" =>
          (nsolve' = nsolve + 1 <=>
              /\ Greater(FabsDiff(Last(history.deviance),
                                  Penultimate(history.deviance)), call.tol)
              /\ iteration < call.maxiter)]_vars

\* C16: when fit returns, the Results it returns holds the coefficients
\* last appended to history, the mean estimate of these coefficients, whose
\* deviance is the last one of history, and the scale estimated from that
\* mean estimate; it is a new Results and the model's back-reference is it.
C16_ResultsFromLastIteration ==
    (FitEnded /\ ret.status = "returned") =>
        LET R == results[ret.result]
        IN  /\ ret.result = Len(results) /\ _results = ret.result
            /\ R.mu = self_mu /\ R.mu \in DOMAIN devOracle
            /\ R.params = Last(history.params)
            /\ R.params = ParamsOf(R.mu)
            /\ Last(history.deviance) = devOracle[R.mu]
            /\ Returned(R.scale) =
                   EstimateScale(call.scale, family, R.mu, devOracle[R.mu], R.df_resid)
            /\ nsolve >= 1
C16_Witness ==
    /\ FitEnded /\ ret.status = "returned" /\ family = "Poisson"
    /\ nsolve = 3 /\ call.scale = PyStr("X2")
    /\ _results = 1 /\ Len(history.params) = 4
    /\ results[1].params = history.params[4]
    /\ results[1].params # history.params[3]
    /\ results[1].scale = Pearson(self_mu)

\* C17: whenever the loop guard is evaluated, history['deviance'] holds
\* iteration + 1 entries, and at the first check of a call the entry compared
\* with the starting deviance is the +inf sentinel.
C17_HistoryAlignedAtGuard ==
    pc = "loop" =>
        /\ Len(history.deviance) = iteration + 1
        /\ nsolve = 0 => PyIndex(history.deviance, iteration - 1) = Inf

\* C18: a second fit call that directly follows the first one, which
\* returned, and has the same arguments, returns as well, after the same
\* number of passes through the loop and with the same params and scale.
C18_FitIsRepeatable ==
    (FitEnded /\ nfit = 2 /\ prev.same /\ prev.status = "returned") =>
        /\ ret.status = "returned"
        /\ nsolve = prev.nsolve
        /\ results[2].params = results[1].params
        /\ results[2].scale = results[1].scale

====
